---- MODULE Spec2Model ----
(***************************************************************************)
(* Logistic-map visualisations (visualizations.py): the recurrence         *)
(* logistic_map and the iteration loops of plot_cobweb, plot_time_series,  *)
(* plot_bifurcation and plot_lyapunov, with the image files they write.    *)
(*                                                                         *)
(* Python floats are binary floating-point numbers.  The model keeps the   *)
(* format and its rounding (round to nearest, ties to even, gradual        *)
(* underflow) and reduces its width: a number is an integer count of       *)
(* units of 2^-FracBits that has at most MantBits significant bits.        *)
(***************************************************************************)
EXTENDS Integers, Sequences, FiniteSets, TLC

\* ------------------------------------------------------------------ bounds
MantBits == 4      \* significant bits of a float (53 in the source's doubles)
FracBits == 10     \* the smallest positive float is 2^-FracBits
MaxIter  == 3      \* largest iterations argument of a call
MaxLast  == 3      \* largest last argument of plot_bifurcation
MaxSteps == 3      \* largest r_steps argument
MaxCalls == 3      \* calls made in a row in the sequential specification
RefSteps == 2      \* size of the reference grid of plot_lyapunov (2000 in the source)
RefBurn  == 1      \* burn-in steps of the reference diagram (500 in the source)
RefLast  == 1      \* plotted steps of the reference diagram (100 in the source)

\* ------------------------------------------------------- float arithmetic
Pow2(n) == IF n <= 0 THEN 1 ELSE 2 ^ n

\* The number of bits of n: 0 for 0, b when 2^(b-1) <= n < 2^b.
BitLen(n) == IF n <= 0 THEN 0 ELSE CHOOSE b \in 1..30 : 2 ^ (b - 1) <= n /\ n < 2 ^ b

One == Pow2(FracBits)

\* The float nearest to the non-negative rational q/d units, ties to even.
RoundPos(q, d) ==
    LET fl  == q \div d
        s   == IF BitLen(fl) > MantBits THEN BitLen(fl) - MantBits ELSE 0
        dd  == d * Pow2(s)
        k   == q \div dd
        rem == q - k * dd
        up  == (2 * rem > dd) \/ (2 * rem = dd /\ k % 2 = 1)
    IN  (IF up THEN k + 1 ELSE k) * Pow2(s)

RoundF(q, d) == IF q < 0 THEN 0 - RoundPos(0 - q, d) ELSE RoundPos(q, d)

Flt(num, den) == RoundF(num * One, den)     \* the literal num/den
FMul(a, b) == RoundF(a * b, One)            \* a * b
FSub(a, b) == RoundF(a - b, 1)              \* a - b
FAdd(a, b) == RoundF(a + b, 1)              \* a + b
FAbs(a)    == IF a < 0 THEN 0 - a ELSE a    \* np.abs(a)
FDivInt(a, n) == RoundF(a, n)               \* a / n for a positive integer n

\* ------------------------------------------------------------- recurrence
logistic_map_plus(x, r) == FMul(FMul(r, x), FAdd(One, x))

logistic_map(x, r) == FMul(FMul(r, x), FSub(One, x))


\* --------------------------------------------- values of the numpy arrays
\* lyapunov holds floats that may be -inf (log of 0) or nan (0/0).
Fin(v) == [k |-> "fin", v |-> v]
NegInf == [k |-> "ninf", v |-> 0]
PosInf == [k |-> "pinf", v |-> 0]
NaN    == [k |-> "nan", v |-> 0]

\* np.log of a positive float: ln interpolated linearly between the powers
\* of two (ln 2 taken as 355/512), rounded to the format.
FLog(v) ==
    LET e   == BitLen(v) - 1
        top == Pow2(e)
        num == ((e - FracBits) * top + (v - top)) * 355
    IN  IF e <= FracBits THEN RoundF(num * Pow2(FracBits - e), 512)
        ELSE RoundF(num, 512 * Pow2(e - FracBits))

XLog(a) == IF a = 0 THEN NegInf ELSE Fin(FLog(a))        \* np.log(a), a >= 0

XAdd(s, t) ==                                            \* s + t
    IF s.k = "nan" \/ t.k = "nan" THEN NaN
    ELSE IF s.k = "fin" /\ t.k = "fin" THEN Fin(FAdd(s.v, t.v))
    ELSE IF s.k = "fin" THEN t
    ELSE IF t.k = "fin" \/ t.k = s.k THEN s
    ELSE NaN

XDivInt(s, n) ==                                         \* s / n, n >= 0
    IF s.k = "nan" THEN NaN
    ELSE IF n = 0 THEN (IF s.k = "fin" /\ s.v = 0 THEN NaN
                        ELSE IF s.k = "ninf" \/ (s.k = "fin" /\ s.v < 0)
                             THEN NegInf ELSE PosInf)
    ELSE IF s.k = "fin" THEN Fin(FDivInt(s.v, n))
    ELSE s

\* np.linspace(a, b, m): m evenly spaced floats, the last one set to b.
linspace(a, b, m) ==
    LET delta == FSub(b, a)
        step  == IF m > 1 THEN FDivInt(delta, m - 1) ELSE 0
        at(j) == IF m > 1 /\ j = m THEN b
                 ELSE IF step # 0 THEN FAdd(FMul(Flt(j - 1, 1), step), a)
                 ELSE IF m > 1 THEN FAdd(FDivInt(FMul(Flt(j - 1, 1), delta), m - 1), a)
                 ELSE FAdd(FMul(Flt(j - 1, 1), delta), a)
    IN  [j \in 1..m |-> at(j)]

ones(m) == [j \in 1..m |-> One]                           \* np.ones(m)
zeros(m) == [j \in 1..m |-> Fin(0)]                       \* np.zeros(m)
scale(c, a) == [j \in 1..Len(a) |-> FMul(c, a[j])]        \* c * a

\* logistic_map on arrays: numpy applies it element by element.
logistic_map_first_r(xs, rs) == [j \in 1..Len(xs) |-> logistic_map(xs[j], rs[1])]

logistic_map_arr(xs, rs) == [j \in 1..Len(xs) |-> logistic_map(xs[j], rs[j])]

\* f'{r:.3f}': r rounded to thousandths (the digits, as a count of thousandths)
Fmt3(v) ==
    LET q   == (v * 1000) \div One
        rem == v * 1000 - q * One
    IN  IF 2 * rem > One \/ (2 * rem = One /\ q % 2 = 1) THEN q + 1 ELSE q

\* ------------------------------------------------------------------ state
VARIABLES
    pc,          \* position in the running routine ("idle" between calls)
    fn,          \* the routine that runs (or ran last)
    callsLeft,   \* calls the driver still makes
    dom,         \* the sets the driver draws the arguments of a call from
    r, x0, iterations, save,        \* arguments of plot_cobweb / plot_time_series
    r_min, r_max, r_steps, last,    \* arguments of plot_bifurcation / plot_lyapunov
    i,           \* loop counter of the running loop
    xn,          \* plot_cobweb: current iterate
    segments,    \* plot_cobweb: the staircase lines handed to ax.plot, in order
    x, x_vals,   \* plot_time_series: current iterate and trajectory
    r_values,    \* plot_bifurcation / plot_lyapunov: the r array
    xa,          \* plot_bifurcation / plot_lyapunov: the state array x
    all_r, all_x,   \* plot_bifurcation: the sample set
    lyapunov,    \* plot_lyapunov: the accumulators
    r_bif, x_bif,   \* plot_lyapunov: the reference diagram's arrays
    applied,     \* applications of the recurrence to x (xn, xa) in this call
    burned,      \* burn-in steps of this call
    files,       \* names of the image files in the working directory
    history      \* the completed calls, in order: routine, arguments, output

args == <<r, x0, iterations, save, r_min, r_max, r_steps, last>>
cobwebVars == <<xn, segments>>
seriesVars == <<x, x_vals>>
arrayVars  == <<r_values, xa>>
sampleVars == <<all_r, all_x>>
lyapVars   == <<lyapunov, r_bif, x_bif>>
vars == <<pc, fn, callsLeft, dom, args, i, cobwebVars, seriesVars, arrayVars,
          sampleVars, lyapVars, applied, burned, files, history>>

\* The floats the driver passes: r in (0,4], x0 in [0,1].
RSet  == {Flt(k, 4) : k \in 1..16}
X0Set == {Flt(j, 16) : j \in 0..16} \cup {Flt(13, 32), Flt(1, 5)}
Ends  == {Flt(1, 2), Flt(2, 1), Flt(13, 4), Flt(4, 1)}     \* r_min, r_max

FullDomain ==
    [rs |-> RSet, x0s |-> X0Set, iters |-> 0..MaxIter, lasts |-> 0..MaxLast,
     steps |-> 0..MaxSteps, ranges |-> Ends \X Ends, saves |-> BOOLEAN]

SeqDomain ==
    [rs |-> {Flt(13, 4), Flt(4, 1)}, x0s |-> {Flt(13, 32)}, iters |-> {1, 2}, lasts |-> {1},
     steps |-> {2}, ranges |-> {<<Flt(13, 4), Flt(4, 1)>>}, saves |-> {TRUE}]

InitFrame ==
    /\ pc = "idle" /\ fn = "none"
    /\ r = 0 /\ x0 = 0 /\ iterations = 0 /\ save = FALSE
    /\ r_min = 0 /\ r_max = 0 /\ r_steps = 0 /\ last = 0
    /\ i = 0 /\ xn = 0 /\ segments = <<>> /\ x = 0 /\ x_vals = <<>>
    /\ r_values = <<>> /\ xa = <<>> /\ all_r = <<>> /\ all_x = <<>>
    /\ lyapunov = <<>> /\ r_bif = <<>> /\ x_bif = <<>>
    /\ applied = 0 /\ burned = 0 /\ files = {} /\ history = <<>>

Init == InitFrame /\ dom = FullDomain /\ callsLeft = 1

InitSeq == InitFrame /\ dom = SeqDomain /\ callsLeft = MaxCalls

\* The name plt.savefig is given: the fixed text and the formatted arguments.
cobweb_name(rv)     == [stem |-> "cobweb_r_", params |-> <<Fmt3(rv)>>, ext |-> ".png"]
timeseries_name(rv) == [stem |-> "timeseries_r_", params |-> <<Fmt3(rv)>>, ext |-> ".png"]
bifurcation_name    == [stem |-> "bifurcation_diagram", params |-> <<>>, ext |-> ".png"]
lyapunov_name       == [stem |-> "lyapunov_spectrum", params |-> <<>>, ext |-> ".png"]

savefig_always(sv, name) == files \cup {name}

savefig(sv, name) == IF sv THEN files \cup {name} ELSE files

Completed(f, a, out) == Append(history, [fn |-> f, args |-> a, out |-> out])

\* ------------------------------------------------------------ plot_cobweb
CobwebCall(rv, x0v, n, sv) ==
    /\ pc = "idle" /\ callsLeft > 0
    /\ fn' = "cobweb" /\ r' = rv /\ x0' = x0v /\ iterations' = n /\ save' = sv
    /\ xn' = x0v /\ segments' = <<>> /\ i' = 0 /\ applied' = 0
    /\ pc' = "loop"
    /\ UNCHANGED <<callsLeft, dom, r_min, r_max, r_steps, last, seriesVars,
                   arrayVars, sampleVars, lyapVars, burned, files, history>>

\* ax.plot([xs0, xs1], [ys0, ys1]): a line from (xs0, ys0) to (xs1, ys1)
Line(xs, ys) == [from |-> <<xs[1], ys[1]>>, to |-> <<xs[2], ys[2]>>]

cobweb_lines_swapped(a, b) == <<Line(<<a, b>>, <<b, b>>), Line(<<a, a>>, <<a, b>>)>>

cobweb_lines(a, b) == <<Line(<<a, a>>, <<a, b>>), Line(<<a, b>>, <<b, b>>)>>

CobwebStep ==
    /\ pc = "loop" /\ fn = "cobweb" /\ i < iterations
    /\ LET x_next == logistic_map(xn, r)
       IN  /\ segments' = segments \o cobweb_lines(xn, x_next)
           /\ xn' = x_next
    /\ i' = i + 1 /\ applied' = applied + 1
    /\ UNCHANGED <<pc, fn, callsLeft, dom, args, seriesVars, arrayVars,
                   sampleVars, lyapVars, burned, files, history>>

CobwebFinish ==
    /\ pc = "loop" /\ fn = "cobweb" /\ i >= iterations
    /\ files' = savefig(save, cobweb_name(r))
    /\ history' = Completed(fn, <<r, x0, iterations>>, segments)
    /\ pc' = "done"
    /\ UNCHANGED <<fn, callsLeft, dom, args, i, cobwebVars, seriesVars, arrayVars,
                   sampleVars, lyapVars, applied, burned>>

\* ------------------------------------------------------- plot_time_series
new_trajectory_kept(x0v) == Append(x_vals, x0v)

new_trajectory(x0v) == <<x0v>>

record_front(xs, v) == <<v>> \o xs

record(xs, v) == Append(xs, v)

\* lines 65-69 as a function of the arguments: the trajectory after n steps
RECURSIVE time_series_values(_, _, _)
time_series_values(rv, x0v, n) ==
    IF n = 0 THEN new_trajectory(x0v)
    ELSE LET t == time_series_values(rv, x0v, n - 1)
         IN  record(t, logistic_map(t[Len(t)], rv))

TimeSeriesCall(rv, x0v, n, sv) ==
    /\ pc = "idle" /\ callsLeft > 0
    /\ fn' = "time_series" /\ r' = rv /\ x0' = x0v /\ iterations' = n /\ save' = sv
    /\ x_vals' = new_trajectory(x0v) /\ x' = x0v /\ i' = 0 /\ applied' = 0
    /\ pc' = "loop"
    /\ UNCHANGED <<callsLeft, dom, r_min, r_max, r_steps, last, cobwebVars,
                   arrayVars, sampleVars, lyapVars, burned, files, history>>

TimeSeriesStep ==
    /\ pc = "loop" /\ fn = "time_series" /\ i < iterations
    /\ x' = logistic_map(x, r)
    /\ x_vals' = record(x_vals, x')
    /\ i' = i + 1 /\ applied' = applied + 1
    /\ UNCHANGED <<pc, fn, callsLeft, dom, args, cobwebVars, arrayVars,
                   sampleVars, lyapVars, burned, files, history>>

TimeSeriesFinish ==
    /\ pc = "loop" /\ fn = "time_series" /\ i >= iterations
    /\ files' = savefig(save, timeseries_name(r))
    /\ history' = Completed(fn, <<r, x0, iterations>>, x_vals)
    /\ pc' = "done"
    /\ UNCHANGED <<fn, callsLeft, dom, args, i, cobwebVars, seriesVars, arrayVars,
                   sampleVars, lyapVars, applied, burned>>

\* ------------------------------------------------------- plot_bifurcation
Tenth == Flt(1, 10)     \* the literal 0.1
Half  == Flt(1, 2)      \* the literal 0.5
Two   == Flt(2, 1)      \* the literal 2

initial_state_half(m) == scale(Half, ones(m))

initial_state(m) == scale(Tenth, ones(m))       \* 0.1 * np.ones(m)

burn_in_steps_all(n, l) == n

burn_in_steps(n, l) == n - l                    \* range(iterations - last)

extend_as_append(acc, arr) == Append(acc, arr)

extend(acc, arr) == acc \o arr                  \* list.extend

BifurcationCall(a, b, m, n, l, sv) ==
    /\ pc = "idle" /\ callsLeft > 0
    /\ fn' = "bifurcation"
    /\ r_min' = a /\ r_max' = b /\ r_steps' = m /\ iterations' = n /\ last' = l
    /\ save' = sv
    /\ r_values' = linspace(a, b, m)
    /\ xa' = initial_state(m)
    /\ all_r' = <<>> /\ all_x' = <<>>
    /\ i' = 0 /\ applied' = 0 /\ burned' = 0
    /\ pc' = "burnin"
    /\ UNCHANGED <<callsLeft, dom, r, x0, cobwebVars, seriesVars, lyapVars,
                   files, history>>

BurnInStep ==
    /\ pc = "burnin" /\ i < burn_in_steps(iterations, last)
    /\ xa' = logistic_map_arr(xa, r_values)
    /\ i' = i + 1 /\ applied' = applied + 1 /\ burned' = burned + 1
    /\ UNCHANGED <<pc, fn, callsLeft, dom, args, cobwebVars, seriesVars, r_values,
                   sampleVars, lyapVars, files, history>>

BurnInExit ==
    /\ pc = "burnin" /\ ~(i < burn_in_steps(iterations, last))
    /\ pc' = "sample" /\ i' = 0
    /\ UNCHANGED <<fn, callsLeft, dom, args, cobwebVars, seriesVars, arrayVars,
                   sampleVars, lyapVars, applied, burned, files, history>>

SampleStep ==
    /\ pc = "sample" /\ i < last
    /\ xa' = logistic_map_arr(xa, r_values)
    /\ all_r' = extend(all_r, r_values)
    /\ all_x' = extend(all_x, xa')
    /\ i' = i + 1 /\ applied' = applied + 1
    /\ UNCHANGED <<pc, fn, callsLeft, dom, args, cobwebVars, seriesVars, r_values,
                   lyapVars, burned, files, history>>

BifurcationFinish ==
    /\ pc = "sample" /\ ~(i < last)
    /\ files' = savefig(save, bifurcation_name)
    /\ history' = Completed(fn, <<r_min, r_max, r_steps, iterations, last>>, all_x)
    /\ pc' = "done"
    /\ UNCHANGED <<fn, callsLeft, dom, args, i, cobwebVars, seriesVars, arrayVars,
                   sampleVars, lyapVars, applied, burned>>

\* ---------------------------------------------------------- plot_lyapunov
\* np.log(np.abs(r_values * (1 - 2 * x))), element by element
log_derivative_no_factor(xs, rs) ==
    [j \in 1..Len(xs) |-> XLog(FAbs(FMul(rs[j], FSub(One, xs[j]))))]

log_derivative(xs, rs) ==
    [j \in 1..Len(xs) |-> XLog(FAbs(FMul(rs[j], FSub(One, FMul(Two, xs[j])))))]

LyapunovCall(a, b, m, n, sv) ==
    /\ pc = "idle" /\ callsLeft > 0
    /\ fn' = "lyapunov"
    /\ r_min' = a /\ r_max' = b /\ r_steps' = m /\ iterations' = n /\ save' = sv
    /\ r_values' = linspace(a, b, m)
    /\ xa' = scale(Half, ones(m))
    /\ lyapunov' = zeros(m)
    /\ i' = 0 /\ applied' = 0
    /\ pc' = "loop"
    /\ UNCHANGED <<callsLeft, dom, r, x0, last, cobwebVars, seriesVars, sampleVars,
                   r_bif, x_bif, burned, files, history>>

LyapunovStep ==
    /\ pc = "loop" /\ fn = "lyapunov" /\ i < iterations
    /\ xa' = logistic_map_arr(xa, r_values)
    /\ LET term == log_derivative(xa', r_values)
       IN  lyapunov' = [j \in 1..Len(lyapunov) |-> XAdd(lyapunov[j], term[j])]
    /\ i' = i + 1 /\ applied' = applied + 1
    /\ UNCHANGED <<pc, fn, callsLeft, dom, args, cobwebVars, seriesVars, r_values,
                   sampleVars, r_bif, x_bif, burned, files, history>>

\* lyapunov /= iterations, then the reference diagram's arrays are set up
LyapunovDivide ==
    /\ pc = "loop" /\ fn = "lyapunov" /\ ~(i < iterations)
    /\ lyapunov' = [j \in 1..Len(lyapunov) |-> XDivInt(lyapunov[j], iterations)]
    /\ r_bif' = linspace(r_min, r_max, RefSteps)
    /\ x_bif' = scale(Tenth, ones(RefSteps))
    /\ i' = 0
    /\ pc' = "ref_burnin"
    /\ UNCHANGED <<fn, callsLeft, dom, args, cobwebVars, seriesVars, arrayVars,
                   sampleVars, applied, burned, files, history>>

RefBurnInStep ==
    /\ pc = "ref_burnin" /\ i < RefBurn
    /\ x_bif' = logistic_map_arr(x_bif, r_bif)
    /\ i' = i + 1
    /\ UNCHANGED <<pc, fn, callsLeft, dom, args, cobwebVars, seriesVars, arrayVars,
                   sampleVars, lyapunov, r_bif, applied, burned, files, history>>

RefBurnInExit ==
    /\ pc = "ref_burnin" /\ ~(i < RefBurn)
    /\ pc' = "ref_sample" /\ i' = 0
    /\ UNCHANGED <<fn, callsLeft, dom, args, cobwebVars, seriesVars, arrayVars,
                   sampleVars, lyapVars, applied, burned, files, history>>

RefSampleStep ==
    /\ pc = "ref_sample" /\ i < RefLast
    /\ x_bif' = logistic_map_arr(x_bif, r_bif)
    /\ i' = i + 1
    /\ UNCHANGED <<pc, fn, callsLeft, dom, args, cobwebVars, seriesVars, arrayVars,
                   sampleVars, lyapunov, r_bif, applied, burned, files, history>>

LyapunovFinish ==
    /\ pc = "ref_sample" /\ ~(i < RefLast)
    /\ files' = savefig(save, lyapunov_name)
    /\ history' = Completed(fn, <<r_min, r_max, r_steps, iterations>>, lyapunov)
    /\ pc' = "done"
    /\ UNCHANGED <<fn, callsLeft, dom, args, i, cobwebVars, seriesVars, arrayVars,
                   sampleVars, lyapVars, applied, burned>>

\* ----------------------------------------------------------------- driver
\* plt.show() returns and the routine with it; the caller goes on.
Return ==
    /\ pc = "done"
    /\ pc' = "idle" /\ callsLeft' = callsLeft - 1
    /\ UNCHANGED <<fn, dom, args, i, cobwebVars, seriesVars, arrayVars, sampleVars,
                   lyapVars, applied, burned, files, history>>

\* The driver calls a routine only when none runs (Idle is each call's guard,
\* stated before the arguments are drawn).
Idle == pc = "idle" /\ callsLeft > 0

Next ==
    \/ Idle /\ \E rv \in dom.rs, x0v \in dom.x0s, n \in dom.iters, sv \in dom.saves :
          CobwebCall(rv, x0v, n, sv)
    \/ CobwebStep
    \/ CobwebFinish
    \/ Idle /\ \E rv \in dom.rs, x0v \in dom.x0s, n \in dom.iters, sv \in dom.saves :
          TimeSeriesCall(rv, x0v, n, sv)
    \/ TimeSeriesStep
    \/ TimeSeriesFinish
    \/ Idle /\ \E ab \in dom.ranges, m \in dom.steps, n \in dom.iters, l \in dom.lasts,
          sv \in dom.saves : BifurcationCall(ab[1], ab[2], m, n, l, sv)
    \/ BurnInStep
    \/ BurnInExit
    \/ SampleStep
    \/ BifurcationFinish
    \/ Idle /\ \E ab \in dom.ranges, m \in dom.steps, n \in dom.iters, sv \in dom.saves :
          LyapunovCall(ab[1], ab[2], m, n, sv)
    \/ LyapunovStep
    \/ LyapunovDivide
    \/ RefBurnInStep
    \/ RefBurnInExit
    \/ RefSampleStep
    \/ LyapunovFinish
    \/ Return

Spec == Init /\ [][Next]_vars

SpecSeq == InitSeq /\ [][Next]_vars

\* ------------------------------------------------------- reference values
\* The scalar recurrence applied k times to xv with parameter rv.
RECURSIVE Iterate(_, _, _)
Iterate(rv, xv, k) == IF k = 0 THEN xv ELSE logistic_map(Iterate(rv, xv, k - 1), rv)

Count(seq, v) == Cardinality({p \in DOMAIN seq : seq[p] = v})

Max0(n) == IF n < 0 THEN 0 ELSE n

\* One unit in the last place of the float q.
Ulp(q) == IF BitLen(q) > MantBits THEN Pow2(BitLen(q) - MantBits) ELSE 1

InUnit(v) == 0 <= v /\ v <= One
ValidR(v) == 0 < v /\ v <= 4 * One

\* ------------------------------------------------------------------ claims
\* C1: in plot_bifurcation, after every sampling step all_r and all_x have
\* equal length, r_steps entries per step taken, hence r_steps * last entries
\* when the sampling loop has ended; every value of the r array then occurs
\* in all_r once per sampling step for each time it occurs in the array.
C1_SampleSetSize ==
    (fn = "bifurcation" /\ pc \in {"sample", "done"}) =>
        /\ Len(r_values) = r_steps
        /\ Len(all_r) = Len(all_x)
        /\ Len(all_x) = r_steps * i
        /\ pc = "done" => (i = last /\ Len(all_r) = r_steps * last)
        /\ \A j \in 1..r_steps :
              Count(all_r, r_values[j]) = i * Count(r_values, r_values[j])

C1_Witness ==
    /\ fn = "bifurcation" /\ pc = "done"
    /\ r_steps = 3 /\ last = 2 /\ r_min # r_max
    /\ Len(all_r) = 6 /\ Len(all_x) = 6
    /\ Count(all_r, r_values[2]) = 2

\* C2 as stated: one application of the recurrence to x in [0,1] with r in
\* (0,4] gives a value in [0, r/4], which is r/4 at x = 0.5, so that the
\* iterates of a trajectory stay in [0,1].
C2_Original ==
    (fn = "time_series" /\ pc \in {"loop", "done"} /\ ValidR(r) /\ InUnit(x0)) =>
        \A k \in 1..(Len(x_vals) - 1) :
            /\ 0 <= x_vals[k + 1] /\ x_vals[k + 1] <= FDivInt(r, 4)
            /\ x_vals[k] = Half => x_vals[k + 1] = FDivInt(r, 4)
            /\ InUnit(x_vals[k + 1])

\* One application of the recurrence, from v with parameter rv, as C2 is
\* amended: in [0,1], at most one unit in the last place above r/4, and r/4
\* at v = 0.5.
StepInRange(rv, v, w) ==
    /\ InUnit(w)
    /\ w <= FDivInt(rv, 4) + Ulp(FDivInt(rv, 4))
    /\ v = Half => w = FDivInt(rv, 4)

\* C2 (amended): for r in (0,4] and x in [0,1] the recurrence gives a value
\* in [0,1] that exceeds r/4 by at most the rounding of the last place and is
\* r/4 at x = 0.5; every iterate of a trajectory, every point of a cobweb and
\* every state and recorded x of an ensemble stays in [0,1].
C2_ClosedUnitInterval ==
    /\ (fn = "time_series" /\ pc \in {"loop", "done"} /\ ValidR(r) /\ InUnit(x0)) =>
          \A k \in 1..(Len(x_vals) - 1) : StepInRange(r, x_vals[k], x_vals[k + 1])
    /\ (fn = "cobweb" /\ pc \in {"loop", "done"} /\ ValidR(r) /\ InUnit(x0)) =>
          /\ InUnit(xn)
          /\ \A p \in 1..Len(segments) :
                /\ InUnit(segments[p].to[1]) /\ InUnit(segments[p].to[2])
                /\ p % 2 = 1 => StepInRange(r, segments[p].from[2], segments[p].to[2])
    /\ (fn \in {"bifurcation", "lyapunov"} /\ pc # "idle"
          /\ \A j \in 1..Len(r_values) : ValidR(r_values[j])) =>
          /\ \A j \in 1..Len(xa) : InUnit(xa[j])
          /\ fn = "bifurcation" => \A p \in 1..Len(all_x) : InUnit(all_x[p])

C2_Witness ==
    /\ fn = "time_series" /\ pc = "done" /\ iterations = 3
    /\ ValidR(r) /\ InUnit(x0)
    /\ x_vals[2] > FDivInt(r, 4)
    /\ x_vals[2] <= One

\* C3: the trajectory of plot_time_series starts as [x0], has i + 1 entries
\* after i loop steps and iterations + 1 at the end, each entry is the
\* recurrence applied to the entry before it, and a step only appends.
C3_Shape ==
    (fn = "time_series" /\ pc \in {"loop", "done"}) =>
        /\ Len(x_vals) = i + 1
        /\ x_vals[1] = x0
        /\ \A k \in 1..i : x_vals[k + 1] = logistic_map(x_vals[k], r)
        /\ pc = "done" => Len(x_vals) = iterations + 1

C3_AppendOnly ==
    (fn = "time_series" /\ pc = "loop") =>
        /\ Len(x_vals') >= Len(x_vals)
        /\ SubSeq(x_vals', 1, Len(x_vals)) = x_vals

C3_Trajectory == [](C3_Shape) /\ [][C3_AppendOnly]_vars

C3_Witness ==
    /\ fn = "time_series" /\ pc = "done" /\ iterations = 3
    /\ Len(x_vals) = 4
    /\ x_vals[2] # x_vals[1] /\ x_vals[3] # x_vals[2] /\ x_vals[4] # x_vals[3]

\* C4: plot_bifurcation records nothing during burn-in; once sampling has
\* begun no burn-in step follows, every sampling step records the whole
\* array, and the k-th recorded batch is the array after burned + k
\* applications of the recurrence to the initial state 0.1.
C4_BurnInThenSample ==
    fn = "bifurcation" =>
        /\ pc = "burnin" =>
              (all_r = <<>> /\ all_x = <<>> /\ applied = i /\ burned = i)
        /\ pc \in {"sample", "done"} =>
              /\ applied = burned + i
              /\ Len(all_x) = r_steps * i /\ Len(all_r) = r_steps * i
              /\ \A k \in 1..i : \A j \in 1..r_steps :
                    /\ all_x[(k - 1) * r_steps + j]
                          = Iterate(r_values[j], Tenth, burned + k)
                    /\ all_r[(k - 1) * r_steps + j] = r_values[j]

C4_Witness ==
    /\ fn = "bifurcation" /\ pc = "done"
    /\ burned = 1 /\ last = 2 /\ r_steps = 2
    /\ Len(all_x) = 4
    /\ all_x[1] # all_x[3]

\* The sum plot_lyapunov has accumulated for rv after k steps from 0.5: one
\* term log|rv (1 - 2 x_j)| for each iterate x_1 .. x_k, added in that order.
RECURSIVE LyapSum(_, _)
LyapSum(rv, k) ==
    IF k = 0 THEN Fin(0)
    ELSE XAdd(LyapSum(rv, k - 1),
              XLog(FAbs(FMul(rv, FSub(One, FMul(Two, Iterate(rv, Half, k)))))))

\* C5: in plot_lyapunov every accumulator starts at 0 and holds, after i
\* loop steps, the sum of the i terms log|r(1 - 2x)| of the i iterates; the
\* loop applies the recurrence iterations times, and after it, once, the
\* accumulator is that sum of iterations terms divided by iterations.
C5_LyapunovSum ==
    fn = "lyapunov" =>
        /\ pc = "loop" =>
              /\ applied = i /\ i <= iterations
              /\ \A j \in 1..r_steps :
                    /\ xa[j] = Iterate(r_values[j], Half, i)
                    /\ lyapunov[j] = LyapSum(r_values[j], i)
        /\ pc \in {"ref_burnin", "ref_sample", "done"} =>
              /\ applied = iterations
              /\ \A j \in 1..r_steps :
                    lyapunov[j] = XDivInt(LyapSum(r_values[j], iterations), iterations)

C5_Witness ==
    /\ fn = "lyapunov" /\ pc = "done"
    /\ iterations = 3 /\ r_steps = 2 /\ applied = 3
    /\ lyapunov[1].k = "fin" /\ lyapunov[1].v # 0
    /\ lyapunov[1] # LyapSum(r_values[1], 3)

\* C6: two completed calls of the same routine with the same arguments have
\* the same output (trajectory, staircase, sample set, exponents), whatever
\* was called before or between them.
C6_Deterministic ==
    \A a \in DOMAIN history : \A b \in DOMAIN history :
        (history[a].fn = history[b].fn /\ history[a].args = history[b].args)
            => history[a].out = history[b].out

C6_Witness ==
    /\ Len(history) = 3
    /\ history[1].fn = "time_series" /\ history[3].fn = "time_series"
    /\ history[2].fn \in {"bifurcation", "lyapunov", "cobweb"}
    /\ history[1].args = history[3].args
    /\ Len(history[3].out) = 3

\* C7 as stated: every image file written has a PNG name that embeds
\* arguments of the call that wrote it.
C7_Original ==
    \A f \in files : f.ext = ".png" /\ f.params # <<>>

\* The point of a routine just before savefig: all its loops have run.
LoopsDone ==
    CASE fn \in {"cobweb", "time_series"} ->
            pc = "loop" /\ i = iterations /\ applied = iterations
      [] fn = "bifurcation" ->
            pc = "sample" /\ i = last /\ applied = Max0(iterations - last) + last
      [] fn = "lyapunov" ->
            pc = "ref_sample" /\ i = RefLast /\ applied = iterations
      [] OTHER -> FALSE

Written ==
    CASE fn = "cobweb" -> [stem |-> "cobweb_r_", params |-> <<Fmt3(r)>>, ext |-> ".png"]
      [] fn = "time_series" ->
            [stem |-> "timeseries_r_", params |-> <<Fmt3(r)>>, ext |-> ".png"]
      [] fn = "bifurcation" ->
            [stem |-> "bifurcation_diagram", params |-> <<>>, ext |-> ".png"]
      [] OTHER -> [stem |-> "lyapunov_spectrum", params |-> <<>>, ext |-> ".png"]

C7_Files ==
    \A f \in files :
        /\ f.ext = ".png"
        /\ \/ f.stem \in {"cobweb_r_", "timeseries_r_"} /\ Len(f.params) = 1
           \/ f.stem \in {"bifurcation_diagram", "lyapunov_spectrum"} /\ f.params = <<>>

C7_Write ==
    /\ files' # files => (save /\ LoopsDone /\ pc' = "done")
    /\ (pc # "done" /\ pc' = "done") =>
          /\ LoopsDone
          /\ files' = IF save THEN files \cup {Written} ELSE files

\* C7 (amended): a call writes at most one file, a PNG, only when save is
\* requested and only after all its loops have run; without save it writes
\* none.  plot_cobweb and plot_time_series name it after r to three decimals
\* (and no other argument); plot_bifurcation and plot_lyapunov write a fixed
\* name that embeds no argument.
C7_SaveFrame == [](C7_Files) /\ [][C7_Write]_vars

C7_Witness ==
    /\ pc = "done" /\ fn = "cobweb" /\ save /\ iterations = 2 /\ applied = 2
    /\ r = Flt(13, 4)
    /\ files = {[stem |-> "cobweb_r_", params |-> <<3250>>, ext |-> ".png"]}

\* C8: after i steps of plot_cobweb the staircase has 2 i lines (2 iterations
\* at the end): line 2n+1 is vertical from (x_n, x_n) to (x_n, x_n+1), line
\* 2n+2 horizontal from (x_n, x_n+1) to (x_n+1, x_n+1); each line starts
\* where the one before ended, the first at (x0, x0); and x_0 .. x_i is the
\* trajectory plot_time_series builds from the same r, x0 in i steps.
C8_Staircase ==
    (fn = "cobweb" /\ pc \in {"loop", "done"}) =>
        LET t == time_series_values(r, x0, i)
        IN  /\ Len(segments) = 2 * i
            /\ pc = "done" => Len(segments) = 2 * iterations
            /\ xn = t[i + 1]
            /\ \A n \in 0..(i - 1) :
                  /\ segments[2 * n + 1].from = <<t[n + 1], t[n + 1]>>
                  /\ segments[2 * n + 1].to = <<t[n + 1], t[n + 2]>>
                  /\ segments[2 * n + 2].from = <<t[n + 1], t[n + 2]>>
                  /\ segments[2 * n + 2].to = <<t[n + 2], t[n + 2]>>
                  /\ t[n + 2] = logistic_map(t[n + 1], r)
            /\ \A p \in 1..Len(segments) :
                  /\ p % 2 = 1 => segments[p].from[1] = segments[p].to[1]
                  /\ p % 2 = 0 => segments[p].from[2] = segments[p].to[2]
                  /\ p > 1 => segments[p].from = segments[p - 1].to
                  /\ p = 1 => segments[p].from = <<x0, x0>>

C8_Witness ==
    /\ fn = "cobweb" /\ pc = "done" /\ iterations = 3
    /\ Len(segments) = 6
    /\ segments[1].from # segments[1].to
    /\ segments[2].from # segments[2].to
    /\ segments[6].to = <<xn, xn>>
    /\ xn # x0

\* C9: after k array steps of plot_bifurcation (from 0.1) or plot_lyapunov
\* (from 0.5), element j of the state array is the scalar recurrence applied
\* k times with r_values[j] alone, and r_values is still the array linspace
\* built from the arguments.
C9_Elementwise ==
    (fn \in {"bifurcation", "lyapunov"} /\ pc # "idle") =>
        /\ r_values = linspace(r_min, r_max, r_steps)
        /\ Len(xa) = r_steps
        /\ \A j \in 1..r_steps :
              xa[j] = Iterate(r_values[j], IF fn = "bifurcation" THEN Tenth ELSE Half,
                              applied)

C9_Witness ==
    /\ fn = "bifurcation" /\ pc = "sample"
    /\ r_steps = 3 /\ applied = 3
    /\ r_values[1] # r_values[2] /\ r_values[2] # r_values[3]
    /\ xa[1] # xa[2] /\ xa[2] # xa[3]

\* C10 as stated: plot_bifurcation ends having applied the recurrence
\* iterations times, iterations - last of them as burn-in.
C10_Original ==
    (fn = "bifurcation" /\ pc = "done") =>
        (applied = iterations /\ burned = iterations - last)

C10_Counts ==
    (fn = "bifurcation" /\ pc = "done") =>
        /\ burned = Max0(iterations - last)
        /\ applied = burned + last
        /\ last <= iterations => applied = iterations
        /\ last > iterations => (burned = 0 /\ applied = last)

\* The steps a call of plot_bifurcation still has to take: the burn-in steps
\* left, the exit of the burn-in loop, the sampling steps left, the end.
StepsLeft ==
    CASE pc = "burnin" -> Max0(iterations - last - i) + 1 + last + 1
      [] pc = "sample" -> (last - i) + 1
      [] OTHER -> 0

C10_Decreases ==
    (fn = "bifurcation" /\ pc \in {"burnin", "sample"}) =>
        (fn' = "bifurcation" /\ 0 <= StepsLeft' /\ StepsLeft' < StepsLeft)

\* C10 (amended): every step of a call of plot_bifurcation brings its end
\* nearer, so the call ends; it ends after max(iterations - last, 0) burn-in
\* steps and last sampling steps: iterations applications when
\* last <= iterations, last applications and no burn-in when last > iterations.
C10_Terminates == [](C10_Counts) /\ [][C10_Decreases]_vars

C10_Witness ==
    /\ fn = "bifurcation" /\ pc = "done"
    /\ iterations = 1 /\ last = 3 /\ r_steps = 2
    /\ applied = 3 /\ burned = 0

====
